---- MODULE Spec2Model ----
(***************************************************************************)
(* AudioProcessor (src/audio_processor.py): one processor object holding   *)
(* audio_data (a channels x samples array), sample_rate, duration and      *)
(* channels, and the transforms that work on it in place.                  *)
(*                                                                         *)
(* Samples are floating point in the source.  Here a sample is an exact    *)
(* rational <<n, d>> (d > 0, lowest terms), so products and quotients are  *)
(* the real-number results; rounding, NaN and infinity are not modelled.   *)
(* A Python None is the empty tuple; a scalar field that is set is a       *)
(* one-element tuple.                                                      *)
(***************************************************************************)
EXTENDS Integers, Sequences, FiniteSets, TLC

VARIABLES
    audio_data,   \* None, or a sequence of channels, each a sequence of samples
    sample_rate,  \* None, or <<Hz>>
    duration,     \* None, or <<seconds>> (a rational)
    channels,     \* None, or <<number of channels>>
    last,         \* the last call: [op, ret, args, clipped]
    pre,          \* the array the last call started with (None after a
                  \* successful load, which reads no earlier array)
    nops,         \* number of calls made so far
    req,          \* web application: the request each server thread is in
    resp,         \* web application: the last response sent
    writer        \* web application: <<client>> whose request last assigned
                  \* audio_data, None while nobody did

\* the module-level AudioProcessor instance of the web application
processor == <<audio_data, sample_rate, duration, channels, last, pre, nops>>

web == <<req, resp, writer>>

vars == <<audio_data, sample_rate, duration, channels, last, pre, nops,
          req, resp, writer>>

-----------------------------------------------------------------------------
(* Bounds of the model *)

MaxLen == 3        \* samples per channel of a loaded file
MaxChannels == 2   \* channels of a loaded file
MaxSamples == 4    \* channels * samples of a loaded file
MaxOps == 2        \* calls after construction, the load included

-----------------------------------------------------------------------------
(* Exact rational arithmetic standing for the float arithmetic of numpy *)

RECURSIVE GCD(_, _)
GCD(a, b) == IF b = 0 THEN a ELSE GCD(b, a % b)

IAbs(i) == IF i < 0 THEN -i ELSE i

Frac(n, d) ==
    LET s == IF d < 0 THEN -1 ELSE 1
        g == GCD(IAbs(n), IAbs(d))
    IN  <<(s * n) \div g, (s * d) \div g>>

Zero == <<0, 1>>
One == <<1, 1>>

RMul(a, b) == Frac(a[1] * b[1], a[2] * b[2])
RDiv(a, b) == Frac(a[1] * b[2], a[2] * b[1])
RSub(a, b) == Frac(a[1] * b[2] - b[1] * a[2], a[2] * b[2])
RAdd(a, b) == Frac(a[1] * b[2] + b[1] * a[2], a[2] * b[2])
RAbs(a) == <<IAbs(a[1]), a[2]>>
RLt(a, b) == a[1] * b[2] < b[1] * a[2]
RLe(a, b) == a[1] * b[2] <= b[1] * a[2]
RGt(a, b) == RLt(b, a)

\* int(x): truncation toward zero
Trunc(a) == IF a[1] >= 0 THEN a[1] \div a[2] ELSE -((-a[1]) \div a[2])

\* an argument that is not a number (a JSON string, say): arithmetic on it raises
NotANumber == <<0, 0>>
IsNumber(a) == a[2] # 0

None == <<>>

-----------------------------------------------------------------------------
(* numpy helpers *)

\* np.max(np.abs(row)) of one channel
ChannelPeak(row) ==
    CHOOSE m \in {RAbs(row[i]) : i \in 1..Len(row)} :
        \A i \in 1..Len(row) : RLe(RAbs(row[i]), m)

\* np.max(np.abs(buf)) over the whole array
BufferPeak(buf) ==
    CHOOSE m \in {ChannelPeak(buf[c]) : c \in 1..Len(buf)} :
        \A c \in 1..Len(buf) : RLe(ChannelPeak(buf[c]), m)

\* row * k and row / k, elementwise
ScaleRow(row, k) == [i \in 1..Len(row) |-> RMul(row[i], k)]
DivRow(row, k) == [i \in 1..Len(row) |-> RDiv(row[i], k)]
ScaleBuffer(buf, k) == [c \in 1..Len(buf) |-> ScaleRow(buf[c], k)]
DivBuffer(buf, k) == [c \in 1..Len(buf) |-> DivRow(buf[c], k)]

-----------------------------------------------------------------------------
(* Inputs *)

SampleValues == {Zero, <<1, 2>>, <<-1, 1>>}
SampleRates == {2}

Rows(n) == [1..n -> SampleValues]

\* the arrays librosa.load can return here
LoadableBuffers ==
    UNION {[1..c -> Rows(n)] :
             <<c, n>> \in {p \in (1..MaxChannels) \X (1..MaxLen) :
                             p[1] * p[2] <= MaxSamples}}

\* the number of channels over the rate
DurationOfRows(data, sr) == Frac(Len(data), sr)

\* lines 45 and 390: self.audio_data.shape[1] / self.sample_rate
DurationOf(data, sr) == Frac(Len(data[1]), sr)

Call(op, ret, args, clipped) ==
    [op |-> op, ret |-> ret, args |-> args, clipped |-> clipped]

CanCall == nops < MaxOps

\* the threads of the development server, one started for each request,
\* and the browsers talking to it
Threads == {"t1", "t2", "t3"}
Clients == {"a", "b"}

-----------------------------------------------------------------------------
\* the fields start at 0, not at None
InitZeroDuration ==
    /\ audio_data = None
    /\ sample_rate = None
    /\ duration = <<Zero>>
    /\ channels = None
    /\ last = Call("init", TRUE, <<>>, FALSE)
    /\ pre = None
    /\ nops = 0
    /\ req = [t \in Threads |-> None]
    /\ resp = None
    /\ writer = None

Init ==
    /\ audio_data = None
    /\ sample_rate = None
    /\ duration = None
    /\ channels = None
    /\ last = Call("init", TRUE, <<>>, FALSE)
    /\ pre = None
    /\ nops = 0
    /\ req = [t \in Threads |-> None]
    /\ resp = None
    /\ writer = None

\* load_audio, librosa.load returning an array
LoadAudio ==
    /\ CanCall
    /\ \E buf \in LoadableBuffers, sr \in SampleRates :
        /\ audio_data' = buf
        /\ sample_rate' = <<sr>>
        /\ channels' = <<Len(buf)>>
        /\ duration' = <<DurationOf(buf, sr)>>
        /\ last' = Call("load_audio", TRUE, <<>>, FALSE)
        /\ pre' = None
        /\ nops' = nops + 1

\* a failing load that resets the fields
LoadAudioFailsClears ==
    /\ CanCall
    /\ audio_data' = None
    /\ sample_rate' = None
    /\ duration' = None
    /\ channels' = None
    /\ last' = Call("load_audio", FALSE, <<>>, FALSE)
    /\ pre' = audio_data
    /\ nops' = nops + 1

\* load_audio, librosa.load raising: nothing has been assigned yet
LoadAudioFails ==
    /\ CanCall
    /\ last' = Call("load_audio", FALSE, <<>>, FALSE)
    /\ pre' = audio_data
    /\ nops' = nops + 1
    /\ UNCHANGED <<audio_data, sample_rate, duration, channels>>

-----------------------------------------------------------------------------
(* change_volume *)

VolumeFactors == {One, <<2, 1>>, <<-3, 2>>, NotANumber}

ClipLimit == One          \* if max_val > 1.0
ClipLevel == <<49, 50>>   \* ... / max_val * 0.98

\* the rescaling without the 0.98
ClipPreventionNoHeadroom(buf) ==
    LET max_val == BufferPeak(buf)
    IN  IF RGt(max_val, ClipLimit)
        THEN [data |-> DivBuffer(buf, max_val), clipped |-> TRUE]
        ELSE [data |-> buf, clipped |-> FALSE]

\* each channel rescaled by its own peak
ClipPreventionPerChannel(buf) ==
    LET max_val == BufferPeak(buf)
    IN  IF RGt(max_val, ClipLimit)
        THEN [data |-> [c \in 1..Len(buf) |->
                          IF ChannelPeak(buf[c]) = Zero THEN buf[c]
                          ELSE ScaleRow(DivRow(buf[c], ChannelPeak(buf[c])), ClipLevel)],
              clipped |-> TRUE]
        ELSE [data |-> buf, clipped |-> FALSE]

\* no rescaling at all
ClipPreventionMissing(buf) == [data |-> buf, clipped |-> FALSE]

\* lines 176-179: the whole array divided by its one peak, times 0.98
ClipPrevention(buf) ==
    LET max_val == BufferPeak(buf)
    IN  IF RGt(max_val, ClipLimit)
        THEN [data |-> ScaleBuffer(DivBuffer(buf, max_val), ClipLevel),
              clipped |-> TRUE]
        ELSE [data |-> buf, clipped |-> FALSE]

\* the call on a loaded array: [ok, data, clipped]
VolumeResult(buf, volume_factor) ==
    IF ~IsNumber(volume_factor)
    THEN [ok |-> FALSE, data |-> buf, clipped |-> FALSE]   \* line 173 raises
    ELSE LET r == ClipPrevention(ScaleBuffer(buf, volume_factor))
         IN  [ok |-> TRUE, data |-> r.data, clipped |-> r.clipped]

ChangeVolume ==
    /\ CanCall
    /\ \E volume_factor \in VolumeFactors :
        LET r == IF audio_data = None
                 THEN [ok |-> FALSE, data |-> None, clipped |-> FALSE]
                 ELSE VolumeResult(audio_data, volume_factor)
        IN  /\ audio_data' = r.data
            /\ last' = Call("change_volume", r.ok, <<volume_factor>>, r.clipped)
    /\ pre' = audio_data
    /\ nops' = nops + 1
    /\ UNCHANGED <<sample_rate, duration, channels>>

-----------------------------------------------------------------------------
(* normalize_audio *)

TargetLevels == {<<4, 5>>, <<-1, 2>>, NotANumber}

\* every channel scaled by the peak of the whole array
NormalizeByBufferPeak(buf, target_level) ==
    LET bad == {c \in 1..Len(buf) : ChannelPeak(buf[c]) # Zero /\ ~IsNumber(target_level)}
    IN  IF bad # {}
        THEN [ok |-> FALSE, data |-> buf]
        ELSE [ok |-> TRUE,
              data |-> [c \in 1..Len(buf) |->
                          IF RGt(ChannelPeak(buf[c]), Zero)
                          THEN ScaleRow(DivRow(buf[c], BufferPeak(buf)), target_level)
                          ELSE buf[c]]]

\* lines 117-121: channel by channel, skipping a channel whose peak is 0.
\* A target that is no number raises at the first channel with a peak > 0,
\* before that channel is assigned; the channels before it were skipped.
NormalizeResult(buf, target_level) ==
    LET bad == {c \in 1..Len(buf) : ChannelPeak(buf[c]) # Zero /\ ~IsNumber(target_level)}
    IN  IF bad # {}
        THEN [ok |-> FALSE, data |-> buf]
        ELSE [ok |-> TRUE,
              data |-> [c \in 1..Len(buf) |->
                          IF RGt(ChannelPeak(buf[c]), Zero)
                          THEN ScaleRow(DivRow(buf[c], ChannelPeak(buf[c])), target_level)
                          ELSE buf[c]]]

NormalizeAudio ==
    /\ CanCall
    /\ \E target_level \in TargetLevels :
        LET r == IF audio_data = None
                 THEN [ok |-> FALSE, data |-> None]
                 ELSE NormalizeResult(audio_data, target_level)
        IN  /\ audio_data' = r.data
            /\ last' = Call("normalize_audio", r.ok, <<target_level>>, FALSE)
    /\ pre' = audio_data
    /\ nops' = nops + 1
    /\ UNCHANGED <<sample_rate, duration, channels>>

-----------------------------------------------------------------------------
(* apply_filter *)

FilterTypes == {"low", "HIGH", "band", "notch"}
CutoffFreqs == {Zero, <<1, 2>>, One}
FilterGains == {Zero, <<1, 2>>}

\* filter_type.lower()
Lower(filter_type) == IF filter_type = "HIGH" THEN "high" ELSE filter_type

\* line 139-140
NormalCutoff(cutoff_freq, sr) == RDiv(cutoff_freq, Frac(sr, 2))

\* a design that takes the Nyquist frequency itself
ButterRaisesAboveOne(btype, Wn) ==
    \/ btype = "band"
    \/ RLe(Wn, Zero)
    \/ RGt(Wn, One)

\* signal.butter(order, Wn, btype, analog=False) with a scalar Wn raises
\* ValueError unless 0 < Wn < 1, and for a band-pass, which needs two
\* critical frequencies.
ButterRaises(btype, Wn) ==
    \/ btype = "band"
    \/ RLe(Wn, Zero)
    \/ RLe(One, Wn)

\* lines 143-151: does the design step end the call with False?
DesignFails(filter_type, cutoff_freq, sr) ==
    \/ Lower(filter_type) \notin {"low", "high", "band"}
    \/ ButterRaises(Lower(filter_type), NormalCutoff(cutoff_freq, sr))

\* lines 154-155.  signal.filtfilt returns an array of the length of its
\* input; which samples it holds is left open here: the channel scaled by one
\* of FilterGains.  It raises for an input not longer than its padding (on the
\* first channel then, all channels having one length) or when it cannot
\* allocate its work arrays: raise_at is the channel at which it raises, 0
\* when it does not.  Channels before raise_at have been assigned.
FilterLoop(buf, raise_at, gains) ==
    [ok |-> raise_at = 0,
     data |-> [c \in 1..Len(buf) |->
                 IF raise_at = 0 \/ c < raise_at
                 THEN ScaleRow(buf[c], gains[c])
                 ELSE buf[c]]]

FilterResult(buf, sr, filter_type, cutoff_freq, raise_at, gains) ==
    IF DesignFails(filter_type, cutoff_freq, sr)
    THEN [ok |-> FALSE, data |-> buf]
    ELSE FilterLoop(buf, raise_at, gains)

ApplyFilter ==
    /\ CanCall
    /\ \/ /\ audio_data = None
          /\ \E filter_type \in FilterTypes, cutoff_freq \in CutoffFreqs :
                last' = Call("apply_filter", FALSE, <<filter_type, cutoff_freq, 0>>, FALSE)
          /\ audio_data' = audio_data
       \/ /\ audio_data # None
          /\ \E filter_type \in FilterTypes, cutoff_freq \in CutoffFreqs,
                raise_at \in 0..Len(audio_data),
                gains \in [1..Len(audio_data) -> FilterGains] :
                LET r == FilterResult(audio_data, sample_rate[1], filter_type,
                                      cutoff_freq, raise_at, gains)
                    at == IF DesignFails(filter_type, cutoff_freq, sample_rate[1])
                          THEN 0 ELSE raise_at
                IN  /\ audio_data' = r.data
                    /\ last' = Call("apply_filter", r.ok,
                                    <<filter_type, cutoff_freq, at>>, FALSE)
    /\ pre' = audio_data
    /\ nops' = nops + 1
    /\ UNCHANGED <<sample_rate, duration, channels>>

-----------------------------------------------------------------------------
(* fade_in_out *)

FadeDurations == {Zero, <<3, 4>>, One, <<2, 1>>}

\* np.linspace(a, b, n)[i], i from 0
Linspace(a, b, n, i) ==
    IF n = 1 THEN a
    ELSE RAdd(a, RDiv(RMul(Frac(i, 1), RSub(b, a)), Frac(n - 1, 1)))

\* row[:n] *= np.linspace(0, 1, n), for 0 < n <= len(row)
FadeIn(row, n) ==
    [i \in 1..Len(row) |->
        IF i <= n THEN RMul(row[i], Linspace(Zero, One, n, i - 1)) ELSE row[i]]

\* row[-m:] *= np.linspace(1, 0, m), for 0 < m <= len(row)
FadeOut(row, m) ==
    [i \in 1..Len(row) |->
        IF i > Len(row) - m
        THEN RMul(row[i], Linspace(One, Zero, m, i - (Len(row) - m) - 1))
        ELSE row[i]]

\* lines 414-416: the fade-in is applied only if fade_in_samples > 0; the
\* slice row[:k] has min(k, len) samples and the ramp k, and the in-place
\* product of a slice with a longer ramp raises
FadeInRaises(k, len) == k > 0 /\ k > len

\* the fade-out without the test for a positive length: row[-0:] is the whole
\* row and the ramp is empty
FadeOutRaisesUnguarded(k, len) == k <= 0 \/ k > len

\* lines 419-421: the same for row[-k:], the whole row when k > len
FadeOutRaises(k, len) == k > 0 /\ k > len

\* lines 409-421.  All channels have one length, so a ramp too long for the
\* array raises in the first channel: the fade-in at once, the fade-out
\* after the fade-in of the first channel has been multiplied in.
FadeResult(buf, sr, fade_in_duration, fade_out_duration) ==
    LET fade_in_samples == Trunc(RMul(fade_in_duration, Frac(sr, 1)))
        fade_out_samples == Trunc(RMul(fade_out_duration, Frac(sr, 1)))
        len == Len(buf[1])
        In(row) == IF fade_in_samples > 0 THEN FadeIn(row, fade_in_samples) ELSE row
        Out(row) == IF fade_out_samples > 0 THEN FadeOut(row, fade_out_samples) ELSE row
    IN  IF FadeInRaises(fade_in_samples, len)
        THEN [ok |-> FALSE, data |-> buf]
        ELSE IF FadeOutRaises(fade_out_samples, len)
        THEN [ok |-> FALSE,
              data |-> [c \in 1..Len(buf) |-> IF c = 1 THEN In(buf[c]) ELSE buf[c]]]
        ELSE [ok |-> TRUE, data |-> [c \in 1..Len(buf) |-> Out(In(buf[c]))]]

FadeInOut ==
    /\ CanCall
    /\ \E fade_in_duration \in FadeDurations, fade_out_duration \in FadeDurations :
        LET r == IF audio_data = None
                 THEN [ok |-> FALSE, data |-> None]
                 ELSE FadeResult(audio_data, sample_rate[1],
                                 fade_in_duration, fade_out_duration)
        IN  /\ audio_data' = r.data
            /\ last' = Call("fade_in_out", r.ok,
                            <<fade_in_duration, fade_out_duration>>, FALSE)
    /\ pre' = audio_data
    /\ nops' = nops + 1
    /\ UNCHANGED <<sample_rate, duration, channels>>

-----------------------------------------------------------------------------
(* trim_silence *)

Thresholds == {<<1, 100>>, <<1, 2>>}

\* np.where(np.abs(row) > threshold)[0], from 1
NonSilent(row, threshold) == {i \in 1..Len(row) : RGt(RAbs(row[i]), threshold)}

Min(S) == CHOOSE x \in S : \A y \in S : x <= y
Max(S) == CHOOSE x \in S : \A y \in S : x >= y

\* the row replaced by the value, whatever its length, as in a list of arrays
RowAssignReplace(row, value) == [raises |-> FALSE, row |-> value]

\* audio_data[channel] = value, a row of a two-dimensional numpy array: the
\* row keeps its length.  A value of that length is copied, a value of one
\* sample is broadcast over the row, any other length raises ValueError.
RowAssign(row, value) ==
    IF Len(value) = Len(row) THEN [raises |-> FALSE, row |-> value]
    ELSE IF Len(value) = 1
    THEN [raises |-> FALSE, row |-> [i \in 1..Len(row) |-> value[1]]]
    ELSE [raises |-> TRUE, row |-> row]

\* the row keeps its length: the samples from start_idx up to, not including,
\* end_idx move to the front and the rest is zeroed
TrimChannelPadded(row, threshold) ==
    LET indices == NonSilent(row, threshold)
    IN  IF indices # {}
        THEN LET kept == SubSeq(row, Min(indices), Max(indices) - 1)
             IN  [raises |-> FALSE,
                  row |-> [i \in 1..Len(row) |->
                             IF i <= Len(kept) THEN kept[i] ELSE Zero]]
        ELSE [raises |-> FALSE, row |-> row]

\* lines 379-387, one channel
TrimChannel(row, threshold) ==
    LET indices == NonSilent(row, threshold)
    IN  IF indices # {}
        THEN RowAssign(row, SubSeq(row, Min(indices), Max(indices)))
        ELSE [raises |-> FALSE, row |-> row]

\* lines 377-394: channel by channel; the first assignment that raises ends
\* the call, the channels before it having been assigned
TrimResult(buf, threshold) ==
    LET raising == {c \in 1..Len(buf) : TrimChannel(buf[c], threshold).raises}
    IN  [ok |-> raising = {},
         data |-> [c \in 1..Len(buf) |->
                     IF raising = {} \/ c < Min(raising)
                     THEN TrimChannel(buf[c], threshold).row
                     ELSE buf[c]]]

\* line 390 assigning shape[1] to the rate
TrimSilenceSetsRate ==
    /\ CanCall
    /\ \E threshold \in Thresholds :
        LET r == IF audio_data = None
                 THEN [ok |-> FALSE, data |-> None]
                 ELSE TrimResult(audio_data, threshold)
        IN  /\ audio_data' = r.data
            /\ sample_rate' = IF r.ok
                              THEN <<Len(r.data[1])>>
                              ELSE sample_rate
            /\ last' = Call("trim_silence", r.ok, <<threshold>>, FALSE)
    /\ pre' = audio_data
    /\ nops' = nops + 1
    /\ UNCHANGED <<duration, channels>>

TrimSilence ==
    /\ CanCall
    /\ \E threshold \in Thresholds :
        LET r == IF audio_data = None
                 THEN [ok |-> FALSE, data |-> None]
                 ELSE TrimResult(audio_data, threshold)
        IN  /\ audio_data' = r.data
            /\ duration' = IF r.ok
                           THEN <<DurationOf(r.data, sample_rate[1])>>
                           ELSE duration
            /\ last' = Call("trim_silence", r.ok, <<threshold>>, FALSE)
    /\ pre' = audio_data
    /\ nops' = nops + 1
    /\ UNCHANGED <<sample_rate, channels>>

-----------------------------------------------------------------------------
(* The calls that read the array: get_audio_info, save_audio,               *)
(* extract_features and the three plots                                     *)

\* get_audio_info: None without an array, the dictionary otherwise
GetAudioInfo ==
    /\ CanCall
    /\ last' = Call("get_audio_info", audio_data # None, <<>>, FALSE)
    /\ pre' = audio_data
    /\ nops' = nops + 1
    /\ UNCHANGED <<audio_data, sample_rate, duration, channels>>

\* save_audio: False without an array; sf.write returns or raises
SaveAudio ==
    /\ CanCall
    /\ \E written \in BOOLEAN :
        last' = Call("save_audio", audio_data # None /\ written, <<>>, FALSE)
    /\ pre' = audio_data
    /\ nops' = nops + 1
    /\ UNCHANGED <<audio_data, sample_rate, duration, channels>>

PlotMethods == {"plot_waveform", "plot_spectrum", "plot_spectrogram"}

\* plot_waveform, plot_spectrum, plot_spectrogram: False without an array;
\* the drawing returns or raises
Plot ==
    /\ CanCall
    /\ \E method \in PlotMethods, drawn \in BOOLEAN :
        last' = Call(method, audio_data # None /\ drawn, <<>>, FALSE)
    /\ pre' = audio_data
    /\ nops' = nops + 1
    /\ UNCHANGED <<audio_data, sample_rate, duration, channels>>

NMfcc == 13

\* range(12) in the MFCC loop
FeatureKeysShortMfcc ==
    {<<"mean">>, <<"std">>, <<"max">>, <<"min">>, <<"zero_crossing_rate">>,
     <<"spectral_centroid">>, <<"spectral_bandwidth">>, <<"spectral_rolloff">>,
     <<"chroma_mean">>, <<"tonnetz">>}
    \cup {<<"mfcc", i + 1>> : i \in 0..(NMfcc - 2)}

\* lines 203-237: the keys assigned to features, f'mfcc_{i+1}' being
\* <<"mfcc", i + 1>>
FeatureKeys ==
    {<<"mean">>, <<"std">>, <<"max">>, <<"min">>, <<"zero_crossing_rate">>,
     <<"spectral_centroid">>, <<"spectral_bandwidth">>, <<"spectral_rolloff">>,
     <<"chroma_mean">>, <<"tonnetz">>}
    \cup {<<"mfcc", i + 1>> : i \in 0..(NMfcc - 1)}

RECURSIVE SumAt(_, _, _)
SumAt(buf, i, c) == IF c = 0 THEN Zero ELSE RAdd(buf[c][i], SumAt(buf, i, c - 1))

\* lines 198-201: np.mean(self.audio_data, axis=0), or the one channel
Downmix(buf) ==
    IF Len(buf) > 1
    THEN [i \in 1..Len(buf[1]) |-> RDiv(SumAt(buf, i, Len(buf)), Frac(Len(buf), 1))]
    ELSE buf[1]

\* the downmix written into the first channel of the array
ExtractFeaturesInPlace ==
    /\ CanCall
    /\ \E computed \in BOOLEAN :
        last' = Call("extract_features", audio_data # None /\ computed,
                     IF audio_data # None /\ computed THEN <<FeatureKeys>> ELSE <<>>,
                     FALSE)
    /\ audio_data' = IF audio_data = None THEN audio_data
                     ELSE [audio_data EXCEPT ![1] = Downmix(audio_data)]
    /\ pre' = audio_data
    /\ nops' = nops + 1
    /\ UNCHANGED <<sample_rate, duration, channels>>

\* extract_features: None without an array; the librosa calls return or
\* raise (None is returned then).  The values of the features are left open;
\* the dictionary returned is held by its keys, in last.args.
ExtractFeatures ==
    /\ CanCall
    /\ \E computed \in BOOLEAN :
        last' = Call("extract_features", audio_data # None /\ computed,
                     IF audio_data # None /\ computed THEN <<FeatureKeys>> ELSE <<>>,
                     FALSE)
    /\ pre' = audio_data
    /\ nops' = nops + 1
    /\ UNCHANGED <<audio_data, sample_rate, duration, channels>>

-----------------------------------------------------------------------------
Next ==
    \/ LoadAudio /\ UNCHANGED web
    \/ LoadAudioFails /\ UNCHANGED web
    \/ ChangeVolume /\ UNCHANGED web
    \/ NormalizeAudio /\ UNCHANGED web
    \/ ApplyFilter /\ UNCHANGED web
    \/ FadeInOut /\ UNCHANGED web
    \/ TrimSilence /\ UNCHANGED web
    \/ GetAudioInfo /\ UNCHANGED web
    \/ SaveAudio /\ UNCHANGED web
    \/ Plot /\ UNCHANGED web
    \/ ExtractFeatures /\ UNCHANGED web

Spec == Init /\ [][Next]_vars

-----------------------------------------------------------------------------
(* The web application: one module-level processor, served by the threads *)
(* of the development server.  A thread is started for a request and runs  *)
(* its handler into the call of the processor (Accept); the call and the   *)
(* rest of the handler follow in a second step, so that other threads run  *)
(* between the two.  The thread ends with its response.                    *)

ProcessActions == {"normalize", "filter", "volume", "trim_silence", "fade",
                   "features", "get_info", "bogus", ""}
PlotTypes == {"waveform", "spectrum", "spectrogram", "bogus"}

\* action: the action of /process, the plot type of /visualize, "file" for
\* an upload that carries a file
Requests ==
    [client : Clients, route : {"upload"}, action : {"file", ""}]
      \cup [client : Clients, route : {"process"}, action : ProcessActions]
      \cup [client : Clients, route : {"save"}, action : {""}]
      \cup [client : Clients, route : {"visualize"}, action : PlotTypes]

\* the files the clients upload: a silent one, a mono one and a stereo one
UploadedFiles ==
    {<<<<Zero>>>>,
     <<<<<<1, 2>>, <<-1, 1>>>>>>,
     <<<<<<1, 2>>>>, <<<<-1, 1>>>>>>}

\* a thread that has sent its response
Served == [client |-> "", route |-> "", action |-> ""]

InFlight == {t \in Threads : req[t] \notin {None, Served}}

Accept(t) ==
    /\ req[t] = None
    /\ \E r \in Requests : req' = [req EXCEPT ![t] = r]
    /\ UNCHANGED <<processor, resp, writer>>

\* jsonify(...): called says whether the handler called the processor, wrote
\* whether that call assigned audio_data; owner is the client whose array
\* the call worked on
Respond(t, status, success, called, wrote) ==
    /\ req' = [req EXCEPT ![t] = Served]
    /\ resp' = [client |-> req[t].client, route |-> req[t].route,
                action |-> req[t].action, status |-> status,
                success |-> success,
                owner |-> IF called /\ audio_data # None THEN writer ELSE None]
    /\ writer' = IF wrote THEN <<req[t].client>> ELSE writer

upload_file(t) ==
    /\ req[t] # None
    /\ req[t].route = "upload"
    /\ \/ /\ req[t].action = ""
          /\ UNCHANGED processor
          /\ Respond(t, 400, FALSE, FALSE, FALSE)
       \/ /\ req[t].action = "file"
          /\ LoadAudio
          /\ audio_data' \in UploadedFiles
          /\ Respond(t, 200, TRUE, TRUE, TRUE)
       \/ /\ req[t].action = "file"
          /\ LoadAudioFails
          /\ Respond(t, 400, FALSE, TRUE, FALSE)

process_audio(t) ==
    /\ req[t] # None
    /\ req[t].route = "process"
    /\ \/ /\ req[t].action = ""
          /\ UNCHANGED processor
          /\ Respond(t, 400, FALSE, FALSE, FALSE)
       \/ /\ req[t].action = "normalize"
          /\ NormalizeAudio
          /\ Respond(t, 200, last'.ret, TRUE, audio_data' # audio_data)
       \/ /\ req[t].action = "filter"
          /\ ApplyFilter
          /\ Respond(t, 200, last'.ret, TRUE, audio_data' # audio_data)
       \/ /\ req[t].action = "volume"
          /\ ChangeVolume
          /\ Respond(t, 200, last'.ret, TRUE, audio_data' # audio_data)
       \/ /\ req[t].action = "trim_silence"
          /\ TrimSilence
          /\ Respond(t, 200, last'.ret, TRUE, audio_data' # audio_data)
       \/ /\ req[t].action = "fade"
          /\ FadeInOut
          /\ Respond(t, 200, last'.ret, TRUE, audio_data' # audio_data)
       \/ /\ req[t].action = "features"
          /\ ExtractFeatures
          /\ Respond(t, 200, last'.ret, TRUE, FALSE)
       \/ /\ req[t].action = "get_info"
          /\ GetAudioInfo
          /\ Respond(t, 200, last'.ret, TRUE, FALSE)
       \/ /\ req[t].action = "bogus"
          /\ UNCHANGED processor
          /\ Respond(t, 200, FALSE, FALSE, FALSE)

save_audio(t) ==
    /\ req[t] # None
    /\ req[t].route = "save"
    /\ SaveAudio
    /\ Respond(t, IF last'.ret THEN 200 ELSE 400, last'.ret, TRUE, FALSE)

visualize_audio(t) ==
    /\ req[t] # None
    /\ req[t].route = "visualize"
    /\ \/ /\ req[t].action = "bogus"
          /\ UNCHANGED processor
          /\ Respond(t, 400, FALSE, FALSE, FALSE)
       \/ /\ req[t].action # "bogus"
          /\ Plot
          /\ last'.op = "plot_" \o req[t].action
          /\ Respond(t, IF last'.ret THEN 200 ELSE 400, last'.ret, TRUE, FALSE)

WebNext ==
    \E t \in Threads :
        \/ Accept(t)
        \/ upload_file(t)
        \/ process_audio(t)
        \/ save_audio(t)
        \/ visualize_audio(t)

WebSpec == Init /\ [][WebNext]_vars

-----------------------------------------------------------------------------
(* Properties *)

Tolerance == <<1, 1000>>

Cells(buf) == {<<c, i>> : c \in 1..Len(buf), i \in 1..Len(buf[1])}

VolumeDone == last.op = "change_volume" /\ last.ret

\* the peak of the array after line 173, from the array before the call
MultipliedPeak == RMul(BufferPeak(pre), RAbs(last.args[1]))

\* C1 as stated: after a successful change_volume the buffer-wide peak is at
\* most 0.98 plus tolerance.
C1_PeakAtMost098 ==
    VolumeDone => RLe(BufferPeak(audio_data), RAdd(ClipLevel, Tolerance))

\* C1 amended: after a successful change_volume with a numeric factor the
\* buffer-wide peak is at most 1.0 (a peak in (0.98, 1.0] is left as it is).
C1_PeakAtMostOne ==
    VolumeDone => RLe(BufferPeak(audio_data), One)

\* a successful change_volume has left a peak above 0.98
C1_Witness ==
    VolumeDone /\ RGt(BufferPeak(audio_data), ClipLevel)

\* C2: when the multiplied peak exceeds 1.0 every sample of every channel is
\* the multiplied sample divided by the one buffer-wide peak and times 0.98,
\* the peak is exactly 0.98 and the ratios between channels are those of the
\* array before the call; otherwise the samples are the multiplied values.
C2_GlobalRescale ==
    VolumeDone =>
        IF RGt(MultipliedPeak, One)
        THEN /\ last.clipped
             /\ BufferPeak(audio_data) = ClipLevel
             /\ \A x \in Cells(pre) :
                    audio_data[x[1]][x[2]] =
                        RMul(RDiv(RMul(pre[x[1]][x[2]], last.args[1]), MultipliedPeak),
                             ClipLevel)
             /\ \A x \in Cells(pre), y \in Cells(pre) :
                    RMul(audio_data[x[1]][x[2]], pre[y[1]][y[2]]) =
                        RMul(audio_data[y[1]][y[2]], pre[x[1]][x[2]])
        ELSE /\ ~last.clipped
             /\ \A x \in Cells(pre) :
                    audio_data[x[1]][x[2]] = RMul(pre[x[1]][x[2]], last.args[1])

\* clip prevention has run on two channels with different peaks
C2_Witness ==
    /\ VolumeDone
    /\ last.clipped
    /\ Len(pre) = 2
    /\ ChannelPeak(pre[1]) # ChannelPeak(pre[2])
    /\ ChannelPeak(pre[2]) # Zero
    /\ ChannelPeak(pre[1]) # Zero

\* C3: after a change_volume that triggered clip prevention, change_volume
\* with factor 1.0 on the resulting array does not trigger it again, leaves
\* every sample as it is and the peak at most 0.98.
C3_ClipIdempotent ==
    (VolumeDone /\ last.clipped) =>
        LET again == VolumeResult(audio_data, One)
        IN  /\ again.ok
            /\ ~again.clipped
            /\ again.data = audio_data
            /\ RLe(BufferPeak(again.data), ClipLevel)

\* clip prevention has just run
C3_Witness ==
    VolumeDone /\ last.clipped /\ BufferPeak(audio_data) = ClipLevel

NormalizeDone == last.op = "normalize_audio" /\ last.ret /\ IsNumber(last.args[1])

\* C4: after a successful normalize_audio(target_level) with target_level > 0,
\* a channel whose peak was above 0 has peak target_level, each sample being
\* the old one times target_level / the channel's own old peak, and a channel
\* whose peak was 0 is unchanged.
C4_NormalizePerChannel ==
    (NormalizeDone /\ RGt(last.args[1], Zero)) =>
        \A c \in 1..Len(pre) :
            IF RGt(ChannelPeak(pre[c]), Zero)
            THEN /\ ChannelPeak(audio_data[c]) = last.args[1]
                 /\ \A i \in 1..Len(pre[c]) :
                        audio_data[c][i] =
                            RMul(pre[c][i], RDiv(last.args[1], ChannelPeak(pre[c])))
            ELSE audio_data[c] = pre[c]

\* a silent channel and a channel with a peak other than the target have
\* been normalized
C4_Witness ==
    /\ NormalizeDone
    /\ RGt(last.args[1], Zero)
    /\ Len(pre) = 2
    /\ ChannelPeak(pre[1]) = Zero
    /\ RGt(ChannelPeak(pre[2]), Zero)
    /\ ChannelPeak(pre[2]) # last.args[1]

FilterCalled == last.op = "apply_filter" /\ pre # None

\* C5: if filtering raises on a channel, apply_filter reports failure and
\* every channel, those before that channel included, holds the samples it
\* held before the call.
C5_FilterAllOrNothing ==
    (FilterCalled /\ last.args[3] > 0) => (~last.ret /\ audio_data = pre)

\* C6: apply_filter reports failure and leaves the array as it was whenever
\* cutoff_freq / (sample_rate / 2) is not strictly between 0 and 1, whenever
\* the kind (case ignored) is not low, high or band, and whenever the kind is
\* band with its single cutoff frequency.
C6_InvalidFilterRejected ==
    LET Wn == RDiv(RMul(last.args[2], <<2, 1>>), Frac(sample_rate[1], 1))
    IN  (/\ FilterCalled
         /\ \/ ~(RLt(Zero, Wn) /\ RLt(Wn, One))
            \/ last.args[1] \notin {"low", "high", "band", "LOW", "HIGH", "BAND"}
            \/ last.args[1] \in {"band", "BAND"})
        => (~last.ret /\ audio_data = pre)

\* a low-pass at the Nyquist frequency itself has been refused on an array
\* that a filter would have changed
C6_Witness ==
    /\ FilterCalled
    /\ last.args[1] = "low"
    /\ last.args[2] = Frac(sample_rate[1], 2)
    /\ BufferPeak(pre) # Zero
    /\ ~last.ret

FadeCalled == last.op = "fade_in_out" /\ pre # None

\* C7: fade_in_out(0, 0) on a loaded array succeeds and changes no sample.
C7_FadeZeroIdentity ==
    (FadeCalled /\ last.args = <<Zero, Zero>>) => (last.ret /\ audio_data = pre)

\* fade_in_out(0, 0) has run on an array with a sample other than 0
C7_Witness ==
    FadeCalled /\ last.args = <<Zero, Zero>> /\ BufferPeak(pre) # Zero

\* C8: fade_in_out fails, changing no sample, whenever fade_in_duration +
\* fade_out_duration exceeds the duration of the array.
C8_OverlappingFadeRejected ==
    (FadeCalled /\ RGt(RAdd(last.args[1], last.args[2]), duration[1]))
        => (~last.ret /\ audio_data = pre)

TrimCalled == last.op = "trim_silence" /\ pre # None

\* the first and last index above the threshold over all channels
LoudIndices(buf, threshold) ==
    UNION {NonSilent(buf[c], threshold) : c \in 1..Len(buf)}

\* C9: after a successful trim_silence on an array with a channel above the
\* threshold, every channel holds its old samples from the smallest first
\* index above the threshold to the largest last one, over all channels.
C9_TrimToUnion ==
    (TrimCalled /\ last.ret /\ LoudIndices(pre, last.args[1]) # {}) =>
        \A c \in 1..Len(pre) :
            audio_data[c] = SubSeq(pre[c], Min(LoudIndices(pre, last.args[1])),
                                           Max(LoudIndices(pre, last.args[1])))

\* C10: trim_silence at the same threshold on the array a trim_silence has
\* left (whether it succeeded or failed) changes no sample and no length.
C10_TrimIdempotent ==
    TrimCalled =>
        LET again == TrimResult(audio_data, last.args[1])
        IN  /\ again.data = audio_data
            /\ again.ok = last.ret

\* a trim_silence that changed the array
C10_Witness ==
    TrimCalled /\ last.ret /\ audio_data # pre

\* C11: when no channel has a sample above the threshold trim_silence reports
\* failure.
C11_AllSilenceFails ==
    (TrimCalled /\ LoudIndices(pre, last.args[1]) = {}) => ~last.ret

Transforms == {"normalize_audio", "change_volume", "trim_silence", "fade_in_out"}

\* C12: a normalize_audio, change_volume, trim_silence or fade_in_out that
\* returns False has left every sample of every channel as it was.
C12_FailureLeavesSamples ==
    (last.op \in Transforms /\ pre # None /\ ~last.ret) => audio_data = pre

\* C13: all channels of a loaded array have the same number of samples after
\* every call.
C13_EqualLengths ==
    audio_data # None =>
        \A c \in 1..Len(audio_data) : Len(audio_data[c]) = Len(audio_data[1])

\* a trim_silence has assigned a one-sample slice to a row of a two-channel
\* array
C13_Witness ==
    /\ TrimCalled
    /\ Len(pre) = 2
    /\ audio_data # pre
    /\ \E c \in 1..2 : Cardinality(NonSilent(pre[c], last.args[1])) = 1

RateKeepers == Transforms \cup {"apply_filter", "extract_features"}

\* C14: no transform and no extract_features changes sample_rate, whether
\* the call succeeds or fails.
C14_SampleRateKept ==
    [][last'.op \in RateKeepers => sample_rate' = sample_rate]_vars

\* a transform has changed the samples of a loaded array
C14_Witness ==
    /\ last.op \in RateKeepers
    /\ pre # None
    /\ audio_data # pre
    /\ sample_rate # None

FeaturesReturned == last.op = "extract_features" /\ last.ret

Readers == {"extract_features", "get_audio_info"} \cup PlotMethods

\* C16: extract_features, get_audio_info and the plots leave audio_data,
\* sample_rate, channels and duration as they were, whether they succeed or
\* fail.
C16_ReadersReadOnly ==
    [][last'.op \in Readers =>
          UNCHANGED <<audio_data, sample_rate, channels, duration>>]_vars

\* extract_features has downmixed two channels that differ
C16_Witness ==
    /\ FeaturesReturned
    /\ Len(audio_data) = 2
    /\ audio_data[1] # audio_data[2]

Methods == RateKeepers \cup Readers \cup {"save_audio"}

\* C19: a call made while no array is loaded returns its failure value and
\* leaves audio_data, sample_rate, duration and channels None.
C19_NothingBeforeLoad ==
    (last.op \in Methods /\ pre = None) =>
        /\ ~last.ret
        /\ audio_data = None
        /\ sample_rate = None
        /\ duration = None
        /\ channels = None

\* two calls have been made on a processor that never loaded a file
C19_Witness ==
    last.op \in Methods /\ pre = None /\ nops >= 2

\* C20: with an array loaded, duration is the number of samples per channel
\* over sample_rate and channels is the number of rows of audio_data.
C20_MetadataConsistent ==
    audio_data # None =>
        /\ duration = <<Frac(Len(audio_data[1]), sample_rate[1])>>
        /\ channels = <<Len(audio_data)>>

\* trim_silence has recomputed the duration of an array of several samples
C20_Witness ==
    TrimCalled /\ last.ret /\ Len(audio_data[1]) > 1 /\ audio_data # pre

Mutating(r) ==
    /\ r # None
    /\ \/ /\ r.route = "upload"
          /\ r.action = "file"
       \/ /\ r.route = "process"
          /\ r.action \in {"normalize", "filter", "volume", "trim_silence",
                            "fade"}

\* C17: at no time are two requests inside mutating operations (upload,
\* normalize, filter, volume, trim_silence, fade) on the same buffer.
C17_SingleWriter ==
    Cardinality({t \in InFlight : Mutating(req[t])}) <= 1

\* C18: a process, save or visualize request of a client works on an array
\* that the requests of this client alone have assigned.
C18_SessionOwnsBuffer ==
    (/\ resp # None
     /\ resp.route \in {"process", "save", "visualize"}
     /\ resp.owner # None)
        => resp.owner = <<resp.client>>

KnownActions == {"normalize", "filter", "volume", "trim_silence", "fade",
                 "features", "get_info"}

\* C21: a load_audio call that returns False leaves audio_data, sample_rate,
\* channels and duration as they were, and a /process request whose action
\* is not recognized leaves them as they were and answers success false.
C21_FailuresChangeNothing ==
    [][/\ (last'.op = "load_audio" /\ ~last'.ret /\ nops' = nops + 1) =>
            UNCHANGED <<audio_data, sample_rate, channels, duration>>
       /\ \A t \in Threads :
            (/\ req[t] # None
             /\ req[t].route = "process"
             /\ req[t].action \notin KnownActions \cup {""}
             /\ req'[t] = Served) =>
                /\ UNCHANGED <<audio_data, sample_rate, channels, duration>>
                /\ resp'.status = 200
                /\ ~resp'.success]_vars

\* an upload has loaded an array, a second upload has failed to load, and a
\* /process request with an unknown action has been answered
C21_Witness ==
    /\ last.op = "load_audio"
    /\ ~last.ret
    /\ pre # None
    /\ audio_data = pre
    /\ resp # None
    /\ resp.route = "process"
    /\ resp.action = "bogus"
====
